---- MODULE Spec2Model ----
(***************************************************************************)
(* Model of the GitHub contribution statistics collector (main.go):        *)
(* the date filter isWithinDateRange, the paginator fetchAllPages with     *)
(* extractNextPageURL and decodeResponse, and the aggregation              *)
(* getContributorStatistics as main invokes it after validateTime.         *)
(*                                                                         *)
(* Text is modelled as a sequence of tokens (records), a Go slice as a     *)
(* record [nil, elems] so that a nil slice and an empty one differ, and a  *)
(* timestamp string as a record [fmt, t, off] that a layout parses or not. *)
(***************************************************************************)
EXTENDS Integers, Sequences, FiniteSets, TLC

VARIABLES
    pc,             \* position of the running program
    viaMain,        \* TRUE when main drives the call (validateTime first)
    startDate,      \* startDate argument / -startDate flag
    endDate,        \* endDate argument / -endDate flag
    includeCommits, \* includeCommits argument
    date,           \* date argument of a direct isWithinDateRange call
    within,         \* result of that call
    url,            \* url variable of fetchAllPages
    allData,        \* allData accumulator of fetchAllPages
    ret,            \* what fetchAllPages returned: [data, err]
    requests,       \* every GET sent so far: [url, status, kind]
    pages,          \* the responses served for the listing being read
    commitsData,    \* getContributorStatistics locals
    commitsCount,
    filteredPRs,
    prsCount,
    statistics,     \* what getContributorStatistics returned
    err

vars == <<pc, viaMain, startDate, endDate, includeCommits, date, within, url,
          allData, ret, requests, pages, commitsData, commitsCount,
          filteredPRs, prsCount, statistics, err>>

-----------------------------------------------------------------------------
(* Bounds of the model *)

MaxTick == 3
MaxPageItems == 3
MaxPages == 3
MaxListPages == 2

(* Program constants *)

StatusOK == 200

-----------------------------------------------------------------------------
(* Timestamp strings and the two layouts the program parses with *)

RFC(t, off) == [fmt |-> "rfc3339", t |-> t, off |-> off]
DateStr(d) == [fmt |-> "date", t |-> d, off |-> 0]
BadStr == [fmt |-> "bad", t |-> 0, off |-> 0]

Offsets == {-1, 0, 1}

\* time.Parse(time.RFC3339, s): a full timestamp with a zone offset; the
\* instant is the wall clock minus the offset
ParseRFC3339(s) ==
    IF s.fmt = "rfc3339"
    THEN [ok |-> TRUE, instant |-> s.t - s.off]
    ELSE [ok |-> FALSE, instant |-> 0]

\* time.Parse("2006-01-02", s): a calendar date, midnight UTC
ParseDate(s) ==
    IF s.fmt = "date"
    THEN [ok |-> TRUE, instant |-> s.t]
    ELSE [ok |-> FALSE, instant |-> 0]

After(a, b) == a > b
Before(a, b) == a < b

isWithinDateRangeInclusive(d, s, e) ==
    LET pd == ParseRFC3339(d)
        ps == ParseRFC3339(s)
        pe == ParseRFC3339(e)
    IN  IF ~pd.ok THEN FALSE
        ELSE IF ~ps.ok THEN FALSE
        ELSE IF ~pe.ok THEN FALSE
        ELSE ~Before(pd.instant, ps.instant) /\ ~After(pd.instant, pe.instant)

isWithinDateRangeLenient(d, s, e) ==
    LET pd == ParseRFC3339(d)
        ps == ParseRFC3339(s)
        pe == ParseRFC3339(e)
    IN  IF ~pd.ok \/ ~ps.ok \/ ~pe.ok THEN TRUE
        ELSE After(pd.instant, ps.instant) /\ Before(pd.instant, pe.instant)

isWithinDateRange(d, s, e) ==
    LET pd == ParseRFC3339(d)
        ps == ParseRFC3339(s)
        pe == ParseRFC3339(e)
    IN  IF ~pd.ok THEN FALSE
        ELSE IF ~ps.ok THEN FALSE
        ELSE IF ~pe.ok THEN FALSE
        ELSE After(pd.instant, ps.instant) /\ Before(pd.instant, pe.instant)

\* validateTime: TRUE when it returns, FALSE when it ends the process
validateTime(s, e) ==
    LET sd == ParseDate(s)
        ed == ParseDate(e)
    IN  IF ~sd.ok THEN FALSE
        ELSE IF ~ed.ok THEN FALSE
        ELSE ~Before(ed.instant, sd.instant)

-----------------------------------------------------------------------------
(* Go slices and errors *)

NilSlice == [nil |-> TRUE, elems |-> <<>>]
MakeSlice(s) == [nil |-> FALSE, elems |-> s]
GoLen(s) == Len(s.elems)

\* append(s, x...): appending nothing returns s itself
GoAppend(s, xs) ==
    IF Len(xs) = 0 THEN s ELSE [nil |-> FALSE, elems |-> s.elems \o xs]

NoErr == [kind |-> "nil", code |-> 0]
StatusErr(c) == [kind |-> "status", code |-> c]
DecodeErr == [kind |-> "decode", code |-> 0]
TransportErr == [kind |-> "transport", code |-> 0]

-----------------------------------------------------------------------------
(* Text: a string is a sequence of tokens; a URL and a rel="..." parameter *)
(* are one token each, the punctuation the code splits on is one token per *)
(* character                                                               *)

Tok(k) == [k |-> k, c |-> "", n |-> 0]
LT == Tok("<")
GT == Tok(">")
SEMI == Tok(";")
COMMA == Tok(",")
SP == Tok(" ")
\* the text rel="r"
RelTok(r) == [k |-> "rel", c |-> r, n |-> 0]
\* the URL of page n of listing c
URLTok(c, n) == [k |-> "url", c |-> c, n |-> n]

\* strings.Split(s, sep) for a one-character separator: one more piece than
\* there are separators, so the empty string gives one empty piece
RECURSIVE Split(_, _)
Split(s, sep) ==
    IF \E i \in 1..Len(s) : s[i] = sep
    THEN LET i == CHOOSE j \in 1..Len(s) :
                      /\ s[j] = sep
                      /\ \A k \in 1..(j - 1) : s[k] # sep
         IN  <<SubSeq(s, 1, i - 1)>> \o Split(SubSeq(s, i + 1, Len(s)), sep)
    ELSE <<s>>

\* strings.Trim(s, cutset): drop the leading and trailing tokens of cutset
RECURSIVE TrimLeft(_, _)
TrimLeft(s, cut) ==
    IF Len(s) > 0 /\ s[1] \in cut THEN TrimLeft(Tail(s), cut) ELSE s

RECURSIVE TrimRight(_, _)
TrimRight(s, cut) ==
    IF Len(s) > 0 /\ s[Len(s)] \in cut
    THEN TrimRight(SubSeq(s, 1, Len(s) - 1), cut)
    ELSE s

Trim(s, cut) == TrimRight(TrimLeft(s, cut), cut)
TrimSpace(s) == Trim(s, {SP})

\* the components of one link of the header
Components(link) == Split(TrimSpace(link), SEMI)

IsNextLinkAnyRel(link) ==
    Len(Components(link)) = 2

IsNextLink(link) ==
    /\ Len(Components(link)) = 2
    /\ TrimSpace(Components(link)[2]) = <<RelTok("next")>>

extractNextPageURL(linkHeader) ==
    LET links == Split(linkHeader, COMMA)
        hits == {i \in 1..Len(links) : IsNextLink(links[i])}
    IN  IF hits = {} THEN <<>>
        ELSE LET i == CHOOSE j \in hits : \A k \in hits : j <= k
             IN  Trim(Components(links[i])[1], {LT, GT})

-----------------------------------------------------------------------------
(* The upstream API: what one GET is answered with *)

\* one entry of a Link header and the header text GitHub sends for a
\* sequence of entries:  <url>; rel="next", <url>; rel="last"
Entry(rel, c, n) == [rel |-> rel, c |-> c, n |-> n]
RenderEntry(e) == <<LT, URLTok(e.c, e.n), GT, SEMI, SP, RelTok(e.rel)>>

RECURSIVE RenderLink(_)
RenderLink(es) ==
    IF Len(es) = 0 THEN <<>>
    ELSE IF Len(es) = 1 THEN RenderEntry(es[1])
    ELSE RenderEntry(es[1]) \o <<COMMA, SP>> \o RenderLink(Tail(es))

\* resp.Header.Get("Link")
HeaderGetLink(resp) == RenderLink(resp.link)

ArrayBody(items) == [kind |-> "array", items |-> items]
MalformedBody == [kind |-> "malformed", items |-> <<>>]

HTTPResp(status, body, link) ==
    [net |-> "ok", status |-> status, body |-> body, link |-> link]
NetFail == [net |-> "fail", status |-> 0, body |-> MalformedBody, link |-> <<>>]

\* the responses that are not a decodable 200 page
FailResponses ==
    {HTTPResp(403, MalformedBody, <<>>), HTTPResp(201, ArrayBody(<<>>), <<>>),
     HTTPResp(StatusOK, MalformedBody, <<>>), NetFail}

decodeResponseNoStatusCheck(resp) ==
    IF resp.body.kind # "array"
    THEN [err |-> DecodeErr, data |-> NilSlice]
    ELSE [err |-> NoErr, data |-> MakeSlice(resp.body.items)]

\* decodeResponse(resp, &target) with target a nil slice: the error, and
\* the target afterwards (a JSON array, even an empty one, leaves it non-nil)
decodeResponse(resp) ==
    IF resp.status # StatusOK
    THEN [err |-> StatusErr(resp.status), data |-> NilSlice]
    ELSE IF resp.body.kind # "array"
    THEN [err |-> DecodeErr, data |-> NilSlice]
    ELSE [err |-> NoErr, data |-> MakeSlice(resp.body.items)]


-----------------------------------------------------------------------------
(* The repository the API serves, and the pages it may cut it into *)

contributorUsername == "alice"

PR(title, login, created) ==
    [title |-> title, login |-> login, created_at |-> created]
CommitItem(title, created) == [title |-> title, created_at |-> created]

\* the window of the run, as calendar dates and as full timestamps
DateStart == DateStr(0)
DateEnd == DateStr(MaxTick)
StampStart == RFC(0, 0)
StampEnd == RFC(MaxTick, 0)

PRMaster ==
    <<PR("pr1", "alice", RFC(1, 0)), PR("pr2", "alice", RFC(2, 0)),
      PR("pr3", "bob", RFC(1, 0)), PR("pr4", "alice", RFC(MaxTick, 0)),
      PR("pr5", "alice", BadStr)>>

IssueMaster ==
    <<PR("is1", "alice", RFC(1, 0)), PR("is2", "bob", RFC(2, 0)),
      PR("is3", "alice", BadStr)>>

CommitMaster == <<CommitItem("c1", RFC(1, 0))>>

PageMaster == SubSeq(PRMaster, 1, 2)

\* the runs of at most MaxPageItems consecutive items of a listing
Slices(master) ==
    {<<>>} \cup UNION {{SubSeq(master, i, j) :
                           j \in {k \in i..Len(master) : k - i < MaxPageItems}} :
                       i \in 1..Len(master)}

commitsURL == <<URLTok("commits", 1)>>
prsURL == <<URLTok("pulls", 1)>>
issuesURL == <<URLTok("issues", 1)>>

Master(c) ==
    CASE c = "commits" -> CommitMaster
      [] c = "pulls" -> PRMaster
      [] c = "issues" -> IssueMaster

\* the Link headers of page n of a listing of at most MaxListPages pages:
\* a last page names no next page, any other page names the following one
ListLinks(c, n) ==
    {IF n > 1 THEN <<Entry("prev", c, n - 1), Entry("first", c, 1)>>
              ELSE <<>>}
        \cup (IF n < MaxListPages
              THEN {<<Entry("next", c, n + 1), Entry("last", c, MaxListPages)>>}
              ELSE {})

\* what the API may answer a GET of u with, when main.go reads a listing
ListResponses(u) ==
    IF u = <<>> THEN {} ELSE
    {HTTPResp(StatusOK, ArrayBody(b), l) :
        b \in Slices(Master(u[1].c)), l \in ListLinks(u[1].c, u[1].n)}
        \cup FailResponses

\* Link headers of any shape, the next page being any page at all
PageLinks ==
    {<<>>, <<Entry("prev", "pulls", 1), Entry("first", "pulls", 1)>>}
        \cup {<<Entry("next", "pulls", n), Entry("last", "pulls", MaxPages)>> :
                 n \in 1..MaxPages}

PageResponses ==
    {HTTPResp(StatusOK, ArrayBody(b), l) :
        b \in Slices(PageMaster), l \in PageLinks}
        \cup FailResponses

-----------------------------------------------------------------------------
(* fetchAllPages *)

Ret(data, e) == [data |-> data, err |-> e]

SameListing(p) == url # <<>> /\ p.url[1].c = url[1].c
\* the pages served so far for the listing being read
CurPages == SelectSeq(pages, SameListing)

Returned ==
    CASE pc = "fetch" -> "returned"
      [] pc = "prs" -> "prsFetched"
      [] pc = "issues" -> "issuesFetched"

\* what the trace of requests keeps of a response
Sent(u, resp) ==
    [url |-> u, status |-> resp.status,
     kind |-> IF resp.net = "fail" THEN "neterr" ELSE resp.body.kind]

ErrReturnPartial(acc, e) == Ret(acc, e)

\* return nil, err
ErrReturn(acc, e) == Ret(NilSlice, e)

\* one pass of the loop of fetchAllPages, answered with resp, and the return
\* that follows when the pass fails or leaves no next URL
fetchAllPages(resp) ==
    /\ pc \in {"fetch", "prs", "issues"}
    /\ url # <<>>
    /\ Len(CurPages) < (IF pc = "fetch" THEN MaxPages ELSE MaxListPages)
    /\ requests' = Append(requests, Sent(url, resp))
    /\ pages' = Append(CurPages, [url |-> url, resp |-> resp])
    /\ IF resp.net = "fail"
       THEN /\ ret' = ErrReturn(allData, TransportErr)
            /\ pc' = Returned
            /\ UNCHANGED <<url, allData>>
       ELSE LET d == decodeResponse(resp)
            IN  IF d.err # NoErr
                THEN /\ ret' = ErrReturn(allData, d.err)
                     /\ pc' = Returned
                     /\ UNCHANGED <<url, allData>>
                ELSE LET acc == GoAppend(allData, d.data.elems)
                         nextURL == extractNextPageURL(HeaderGetLink(resp))
                     IN  /\ allData' = acc
                         /\ url' = nextURL
                         /\ IF nextURL = <<>>
                            THEN ret' = Ret(acc, NoErr) /\ pc' = Returned
                            ELSE UNCHANGED <<ret, pc>>
    /\ UNCHANGED <<viaMain, startDate, endDate, includeCommits, date, within,
                   commitsData, commitsCount, filteredPRs, prsCount,
                   statistics, err>>

-----------------------------------------------------------------------------
(* getContributorStatistics *)

ZeroStatistics ==
    [PRsCount |-> 0, PRStats |-> NilSlice,
     IssuesCount |-> 0, IssueStats |-> NilSlice,
     CommitsCount |-> 0, CommitStats |-> NilSlice]

KeepAnyAuthor(item, s, e) ==
    isWithinDateRange(item.created_at, s, e)

\* the condition of the filter loops
Keep(item, s, e) ==
    item.login = contributorUsername
        /\ isWithinDateRange(item.created_at, s, e)

\* the filter loops: items of the contributor inside the window, in order
RECURSIVE FilterItems(_, _, _)
FilterItems(items, s, e) ==
    IF Len(items) = 0 THEN NilSlice
    ELSE LET rest == FilterItems(SubSeq(items, 1, Len(items) - 1), s, e)
             last == items[Len(items)]
         IN  IF Keep(last, s, e) THEN GoAppend(rest, <<last>>) ELSE rest

\* where the call starts: the commit request, or the pull request listing
EntryPc(commits) == IF commits THEN "commits" ELSE "prs"
EntryURL(commits) == IF commits THEN <<>> ELSE prsURL

\* the commit request
CommitsStep(resp) ==
    /\ pc = "commits"
    /\ requests' = Append(requests, Sent(commitsURL, resp))
    /\ pages' = <<[url |-> commitsURL, resp |-> resp]>>
    /\ IF resp.net = "fail"
       THEN /\ statistics' = ZeroStatistics
            /\ err' = TransportErr
            /\ pc' = "done"
            /\ UNCHANGED <<commitsData, commitsCount, url>>
       ELSE LET d == decodeResponse(resp)
            IN  IF d.err # NoErr
                THEN /\ statistics' = ZeroStatistics
                     /\ err' = d.err
                     /\ pc' = "done"
                     /\ UNCHANGED <<commitsData, commitsCount, url>>
                ELSE /\ commitsData' = d.data
                     /\ commitsCount' = GoLen(d.data)
                     /\ pc' = "prs"
                     /\ url' = prsURL
                     /\ UNCHANGED <<statistics, err>>
    /\ UNCHANGED <<viaMain, startDate, endDate, includeCommits, date, within,
                   allData, ret, filteredPRs, prsCount>>

\* after the pull request listing is read: give up, or filter it
PRsStep ==
    /\ pc = "prsFetched"
    /\ IF ret.err # NoErr
       THEN /\ statistics' = ZeroStatistics
            /\ err' = ret.err
            /\ pc' = "done"
            /\ UNCHANGED <<filteredPRs, prsCount, url, allData>>
       ELSE LET f == FilterItems(ret.data.elems, startDate, endDate)
            IN  /\ filteredPRs' = f
                /\ prsCount' = GoLen(f)
                /\ pc' = "issues"
                /\ url' = issuesURL
                /\ allData' = NilSlice
                /\ UNCHANGED <<statistics, err>>
    /\ ret' = Ret(NilSlice, NoErr)
    /\ UNCHANGED <<viaMain, startDate, endDate, includeCommits, date, within,
                   requests, pages, commitsData, commitsCount>>

\* the commit fields are tagged omitempty: by the record's own field tags
\* each is left out when it is zero or of length zero, and the struct keeps
\* no other mark of commits having been requested (the count is 0 either way)
CommitFieldsPresent(st) ==
    st.CommitsCount # 0 /\ GoLen(st.CommitStats) # 0

AssembleSwapped(prs, issues, commits) ==
    [PRsCount |-> GoLen(issues), PRStats |-> prs,
     IssuesCount |-> prsCount, IssueStats |-> issues,
     CommitsCount |-> IF commits THEN commitsCount ELSE 0,
     CommitStats |-> IF commits THEN commitsData ELSE NilSlice]

\* the record built at the end of the call
Assemble(prs, issues, commits) ==
    [PRsCount |-> prsCount, PRStats |-> prs,
     IssuesCount |-> GoLen(issues), IssueStats |-> issues,
     CommitsCount |-> IF commits THEN commitsCount ELSE 0,
     CommitStats |-> IF commits THEN commitsData ELSE NilSlice]

\* after the issue listing is read: give up, or filter it and return
IssuesStep ==
    /\ pc = "issuesFetched"
    /\ IF ret.err # NoErr
       THEN /\ statistics' = ZeroStatistics
            /\ err' = ret.err
       ELSE LET f == FilterItems(ret.data.elems, startDate, endDate)
            IN  /\ statistics' = Assemble(filteredPRs, f, includeCommits)
                /\ err' = NoErr
    /\ pc' = "done"
    /\ UNCHANGED <<viaMain, startDate, endDate, includeCommits, date, within,
                   url, allData, ret, requests, pages, commitsData,
                   commitsCount, filteredPRs, prsCount>>

-----------------------------------------------------------------------------
(* main, up to the call *)

ValidateStep ==
    /\ pc = "main"
    /\ IF validateTime(startDate, endDate)
       THEN pc' = EntryPc(includeCommits) /\ url' = EntryURL(includeCommits)
       ELSE pc' = "fatal" /\ UNCHANGED url
    /\ UNCHANGED <<viaMain, startDate, endDate, includeCommits, date, within,
                   allData, ret, requests, pages, commitsData, commitsCount,
                   filteredPRs, prsCount, statistics, err>>

\* a direct call of the date filter
FilterStep ==
    /\ pc = "filter"
    /\ within' = isWithinDateRange(date, startDate, endDate)
    /\ pc' = "filtered"
    /\ UNCHANGED <<viaMain, startDate, endDate, includeCommits, date, url,
                   allData, ret, requests, pages, commitsData, commitsCount,
                   filteredPRs, prsCount, statistics, err>>

-----------------------------------------------------------------------------
(* Specifications *)

\* the locals of a call that has not run yet
Fresh ==
    /\ allData = NilSlice
    /\ ret = Ret(NilSlice, NoErr)
    /\ requests = <<>>
    /\ pages = <<>>
    /\ commitsData = NilSlice
    /\ commitsCount = 0
    /\ filteredPRs = NilSlice
    /\ prsCount = 0
    /\ statistics = ZeroStatistics
    /\ err = NoErr

\* the date flags main may be started with, and the date arguments of a
\* direct call
Windows(main) ==
    IF main
    THEN {<<DateStart, DateEnd>>, <<DateEnd, DateStart>>, <<BadStr, DateEnd>>,
          <<StampStart, StampEnd>>}
    ELSE {<<StampStart, StampEnd>>, <<StampStart, BadStr>>}

\* the program run by main, or getContributorStatistics called directly
Init ==
    /\ viaMain \in BOOLEAN
    /\ includeCommits \in BOOLEAN
    /\ \E w \in Windows(viaMain) : startDate = w[1] /\ endDate = w[2]
    /\ pc = IF viaMain THEN "main" ELSE EntryPc(includeCommits)
    /\ url = IF viaMain THEN <<>> ELSE EntryURL(includeCommits)
    /\ date = BadStr
    /\ within = FALSE
    /\ Fresh

Next ==
    \/ ValidateStep
    \/ \E resp \in ListResponses(commitsURL) : CommitsStep(resp)
    \/ \E resp \in ListResponses(url) : fetchAllPages(resp)
    \/ PRsStep
    \/ IssuesStep

Spec == Init /\ [][Next]_vars

\* fetchAllPages called on its own
InitPages ==
    /\ pc = "fetch"
    /\ url = prsURL
    /\ viaMain = FALSE
    /\ includeCommits = FALSE
    /\ startDate = StampStart
    /\ endDate = StampEnd
    /\ date = BadStr
    /\ within = FALSE
    /\ Fresh

NextPages == \E resp \in PageResponses : fetchAllPages(resp)

SpecPages == InitPages /\ [][NextPages]_vars

\* isWithinDateRange called on its own
FilterStrings ==
    {RFC(t, off) : t \in 0..MaxTick, off \in Offsets}
        \cup {DateStart, DateEnd, BadStr}

InitFilter ==
    /\ pc = "filter"
    /\ date \in FilterStrings
    /\ startDate \in FilterStrings
    /\ endDate \in FilterStrings
    /\ viaMain = FALSE
    /\ includeCommits = FALSE
    /\ url = <<>>
    /\ within = FALSE
    /\ Fresh

NextFilter == FilterStep

SpecFilter == InitFilter /\ [][NextFilter]_vars


-----------------------------------------------------------------------------
(* Vocabulary of the properties *)

Parsable(s) == s.fmt = "rfc3339"
Instant(s) == s.t - s.off

StrictlyInside(d, s, e) ==
    /\ Parsable(d) /\ Parsable(s) /\ Parsable(e)
    /\ Instant(s) < Instant(d)
    /\ Instant(d) < Instant(e)

\* the URL the first rel="next" entry of a Link header names, if any
LinkedNext(link) ==
    IF \E i \in 1..Len(link) : link[i].rel = "next"
    THEN LET i == CHOOSE j \in 1..Len(link) :
                      /\ link[j].rel = "next"
                      /\ \A k \in 1..(j - 1) : link[k].rel # "next"
         IN  <<URLTok(link[i].c, link[i].n)>>
    ELSE <<>>

\* the items of the first k pages served, in page order
RECURSIVE ServedItems(_)
ServedItems(k) ==
    IF k = 0 THEN <<>>
    ELSE ServedItems(k - 1) \o pages[k].resp.body.items

GoodPage(resp) ==
    resp.net = "ok" /\ resp.status = StatusOK /\ resp.body.kind = "array"

\* a request that was not answered with a decodable 200 page
Failed(r) == ~(r.status = StatusOK /\ r.kind = "array")
Non2xx(r) == r.kind # "neterr" /\ r.status \notin 200..299
Last(s) == s[Len(s)]

\* the k-th page of the listing fetchAllPages was started on, as the
\* responses name it
Chain(k) == IF k = 1 THEN prsURL ELSE LinkedNext(pages[k - 1].resp.link)

WellFormedUpTo(k) ==
    /\ \A i \in 1..k : GoodPage(pages[i].resp)
    /\ \A i \in 1..k : \A j \in 1..k : i < j => Chain(i) # Chain(j)

ExpectedKeep(item) ==
    /\ item.login = contributorUsername
    /\ StrictlyInside(item.created_at, startDate, endDate)

AllGood == \A i \in 1..Len(requests) : ~Failed(requests[i])

-----------------------------------------------------------------------------
(* Properties *)

\* C1: for a well-formed sequence of N pages (every page a decodable 200,
\* each page but the last naming the following page as next, no page named
\* twice) fetchAllPages sends one GET per page, in page order, returns after
\* page N and not before, and returns the items of pages 1..N concatenated
\* in page order and within-page order.
C1_ConcatenatesAllPages ==
    /\ \A k \in 1..Len(pages) :
          WellFormedUpTo(k) =>
              /\ k <= Len(requests) /\ requests[k].url = Chain(k)
              /\ LinkedNext(pages[k].resp.link) = <<>> =>
                    /\ pc = "returned"
                    /\ Len(requests) = k
                    /\ ret.err = NoErr
                    /\ ret.data.elems = ServedItems(k)
    /\ (pc = "returned" /\ WellFormedUpTo(Len(pages))) =>
          LinkedNext(Last(pages).resp.link) = <<>>

C1_Witness ==
    /\ pc = "returned"
    /\ Len(pages) = MaxPages
    /\ WellFormedUpTo(MaxPages)
    /\ Len(requests) = MaxPages
    /\ Len(pages[1].resp.body.items) >= 2
    /\ Len(pages[2].resp.body.items) >= 1
    /\ pages[2].resp.body.items[1] = PageMaster[1]
    /\ ret.data.elems = ServedItems(MaxPages)

\* C2: a request answered with a non-2xx status is the last request
\* fetchAllPages sends, and the call returns an error and a nil result
\* whatever the earlier pages held.
C2_Non2xxFailsWhole ==
    \A i \in 1..Len(requests) :
        Non2xx(requests[i]) =>
            /\ i = Len(requests)
            /\ pc = "returned"
            /\ ret.err # NoErr
            /\ ret.data = NilSlice

C2_Witness ==
    /\ pc = "returned"
    /\ Len(requests) >= 2
    /\ Non2xx(Last(requests))
    /\ Len(pages[1].resp.body.items) >= 1
    /\ ret.data = NilSlice
    /\ ret.err = StatusErr(Last(requests).status)

\* C3: the scenario run by main (flags 2022-01-01 and 2022-01-31 passed
\* unchanged, contributor alice, no commits): after the two pull request
\* pages are read, two pull requests are counted and kept, the two by alice
\* inside the window.
C3_ScenarioCountsTwo ==
    (/\ viaMain /\ ~includeCommits
     /\ startDate = DateStart /\ endDate = DateEnd
     /\ pc = "issues"
     /\ Len(pages) = 2
     /\ pages[1].url = prsURL
     /\ pages[1].resp.body.items = SubSeq(PRMaster, 1, 3)
     /\ pages[2].resp.body.items = SubSeq(PRMaster, 4, 4))
        => /\ prsCount = 2
           /\ filteredPRs.elems = SubSeq(PRMaster, 1, 2)

\* C4: for timestamps that parse, isWithinDateRange is true exactly when the
\* item's instant is strictly after the start and strictly before the end.
C4_StrictlyInsideOnly ==
    (pc = "filtered" /\ Parsable(date) /\ Parsable(startDate)
        /\ Parsable(endDate))
        => (within <=> (/\ Instant(startDate) < Instant(date)
                        /\ Instant(date) < Instant(endDate)))

C4_Witness ==
    /\ pc = "filtered"
    /\ Parsable(date) /\ Parsable(startDate) /\ Parsable(endDate)
    /\ Instant(date) = Instant(endDate)
    /\ date # endDate
    /\ Instant(startDate) < Instant(date)
    /\ ~within

\* C5: every pull request and issue kept by the aggregation, and so every
\* one in the record, is by the requested contributor.
C5_OnlyContributorItems ==
    /\ \A i \in 1..GoLen(filteredPRs) :
          filteredPRs.elems[i].login = contributorUsername
    /\ \A i \in 1..GoLen(statistics.PRStats) :
          statistics.PRStats.elems[i].login = contributorUsername
    /\ \A i \in 1..GoLen(statistics.IssueStats) :
          statistics.IssueStats.elems[i].login = contributorUsername

C5_Witness ==
    /\ pc = "done"
    /\ err = NoErr
    /\ statistics.PRsCount > 0
    /\ statistics.IssuesCount > 0
    /\ \E i \in 1..Len(ServedItems(Len(pages))) :
          /\ ServedItems(Len(pages))[i].login # contributorUsername
          /\ StrictlyInside(ServedItems(Len(pages))[i].created_at,
                            startDate, endDate)

\* C6: a request that fails is the last one sent (nothing is requested
\* after it, nothing is retried), and the call then returns the error, with
\* the status when there is one, and a record with no count and no item.
C6_AbortsOnFailure ==
    /\ \A i \in 1..Len(requests) :
          Failed(requests[i]) =>
              /\ i = Len(requests)
              /\ pc \in {"prsFetched", "issuesFetched", "done"}
    /\ (pc = "done" /\ requests # <<>> /\ Failed(Last(requests))) =>
          /\ statistics = ZeroStatistics
          /\ err # NoErr
          /\ Non2xx(Last(requests)) => err = StatusErr(Last(requests).status)

C6_Witness ==
    /\ pc = "done"
    /\ includeCommits
    /\ commitsCount > 0
    /\ prsCount > 0
    /\ Len(requests) >= 3
    /\ Last(requests).url = issuesURL
    /\ Last(requests).status = 403
    /\ err = StatusErr(403)
    /\ statistics = ZeroStatistics

C8_CountsMatchLengths ==
    pc = "done" =>
        /\ statistics.PRsCount = GoLen(statistics.PRStats)
        /\ statistics.IssuesCount = GoLen(statistics.IssueStats)
        /\ statistics.CommitsCount = GoLen(statistics.CommitStats)

C8_Witness ==
    /\ pc = "done"
    /\ err = NoErr
    /\ includeCommits
    /\ statistics.CommitsCount > 0
    /\ statistics.PRsCount > statistics.IssuesCount
    /\ statistics.IssuesCount > 0

\* C9: every page of the commit listing is requested: a commit page that
\* names a next page is followed by a request for that page.
C9_CommitPagesDrained ==
    \A i \in 1..Len(pages) :
        (/\ pages[i].url[1].c = "commits"
         /\ GoodPage(pages[i].resp)
         /\ LinkedNext(pages[i].resp.link) # <<>>)
            => \E j \in 1..Len(requests) :
                  requests[j].url = LinkedNext(pages[i].resp.link)

\* C10: an unparsable timestamp is never an error: a call whose requests
\* were all answered with a decodable 200 page succeeds, and what it keeps
\* of a listing is exactly the contributor's items whose timestamp, with
\* both window bounds, parses and lies strictly inside the window.
C10_UnparsableIsSkipped ==
    /\ (pc = "done" /\ AllGood) => err = NoErr
    /\ (pc = "done" /\ err = NoErr) =>
          statistics.IssueStats.elems
              = SelectSeq(ServedItems(Len(pages)), ExpectedKeep)
    /\ (pc = "issues" /\ pages # <<>> /\ pages[1].url = prsURL) =>
          filteredPRs.elems
              = SelectSeq(ServedItems(Len(pages)), ExpectedKeep)

C10_Witness ==
    /\ pc = "done"
    /\ err = NoErr
    /\ statistics.IssuesCount > 0
    /\ statistics.PRsCount > 0
    /\ \E i \in 1..Len(ServedItems(Len(pages))) :
          /\ ServedItems(Len(pages))[i].login = contributorUsername
          /\ ~Parsable(ServedItems(Len(pages))[i].created_at)


====
